---- MODULE Spec2Model ----
(***************************************************************************)
(* The points/referral transaction core of DeNet_test_task:                *)
(* internal/repository/postgres/repository.go over the schema of           *)
(* migrations/001_create_users_table.up.sql.                               *)
(*                                                                         *)
(* The store is PostgreSQL at its default isolation level (BeginTx is      *)
(* called with nil options), READ COMMITTED: every statement of a          *)
(* transaction reads the rows committed so far plus the transaction's own  *)
(* writes; an UPDATE takes the row's write lock, waits while another       *)
(* transaction holds it, and then works on the row version committed last; *)
(* the locks are released at commit or rollback.  The foreign-key checks   *)
(* take FOR KEY SHARE locks, which do not conflict with the locks of the   *)
(* UPDATEs here (none changes a key column), so they are not modelled as   *)
(* locks.  Columns no operation branches on (passw, created_at,            *)
(* updated_at, completed_at) are left out of the rows.                     *)
(***************************************************************************)
EXTENDS Integers, Sequences, FiniteSets, TLC

\* ------------------------------------------------------------------ bounds
MaxUsers == 3       \* user rows LoginUser may create
NumProcs == 2       \* requests served concurrently
MaxCalls == 2       \* engine calls started in one behaviour
MaxPoints == 1      \* largest award a request carries
MaxBalance == 2     \* largest task balance of a stored user the queries read

\* --------------------------------------------------------------- constants
BonusPoints == 10   \* bonusPoints := 10

UserIDs == 1..MaxUsers
Usernames == 1..MaxUsers
Procs == 1..NumProcs
TaskTypes == {"", "quiz"}
PointsInputs == (0 - 1)..MaxPoints
NULL == 0           \* referrer_id IS NULL

\* error values of the repository (errors.New / fmt.Errorf prefixes)
NoErr == "nil"
ErrUserNotFound == "user not found"
ErrReferrerNotFound == "referrer not found"
ErrAlreadyHasReferrer == "user already has a referrer"
ErrBegin == "failed to begin transaction"

VARIABLES
    users,      \* table users: id -> committed row
    tasks,      \* table tasks: set of committed rows
    pc,         \* per request: the statement it is about to execute
    req,        \* per request: the call and its arguments
    txUsers,    \* per transaction: user rows it has written (and so locked)
    txTasks,    \* per transaction: task rows it has inserted
    user,       \* AddReferrer's local `user` (the re-read row)
    ret,        \* per request: what the last call returned
    log,        \* history: the committed calls, in commit order
    ncalls,     \* history: number of calls started
    got,        \* what the query answered last returned
    caller      \* per process: the user_id claim of the token of the last
                \* request a handler passed on to the service (0: none)

vars == <<users, tasks, pc, req, txUsers, txTasks, user, ret, log, ncalls,
          got, caller>>

NoReq == [op |-> "none", callID |-> 0, userID |-> 0, referrerID |-> 0,
          taskType |-> "", points |-> 0]
NoRet == [op |-> "none", err |-> "pending", val |-> <<>>]
NoGot == [op |-> "none", arg |-> 0, err |-> "pending", val |-> <<>>,
          status |-> 0]
EmptyRows == [id \in {} |-> 0]

\* A users row as the INSERT of LoginUser creates it: points DEFAULT 0,
\* referrer_id NULL.
NewUserRow(id, username) ==
    [id |-> id, username |-> username, points |-> 0, referrer_id |-> NULL]

Init ==
    /\ users = EmptyRows
    /\ tasks = {}
    /\ pc = [p \in Procs |-> "idle"]
    /\ req = [p \in Procs |-> NoReq]
    /\ txUsers = [p \in Procs |-> EmptyRows]
    /\ txTasks = [p \in Procs |-> {}]
    /\ user = [p \in Procs |-> <<>>]
    /\ ret = [p \in Procs |-> NoRet]
    /\ log = <<>>
    /\ ncalls = 0
    /\ got = NoGot
    /\ caller = [p \in Procs |-> 0]

\* ------------------------------------------------------- store primitives

\* The transaction holding the write lock of row id, as a set (empty: free).
LockHolders(id) == {q \in Procs : id \in DOMAIN txUsers[q]}

\* Row id is locked by a transaction other than p.
LockedByOther(p, id) == LockHolders(id) \ {p} # {}

\* The rows a statement of transaction p sees: committed rows overlaid
\* with p's own writes.
Visible(p) == txUsers[p] @@ users

\* SELECT EXISTS(SELECT 1 FROM users WHERE id = $1) in transaction p; the
\* foreign keys REFERENCES users(id) look the row up the same way.
\* Variant: the lookup answers true for every id.
UserExistsUnchecked(p, id) == TRUE

UserExists(p, id) == id \in DOMAIN Visible(p)

\* The call returns (val, err); the transaction is over, its locks released.
Return(p, err, val) ==
    /\ pc' = [pc EXCEPT ![p] = "idle"]
    /\ req' = [req EXCEPT ![p] = NoReq]
    /\ txUsers' = [txUsers EXCEPT ![p] = EmptyRows]
    /\ txTasks' = [txTasks EXCEPT ![p] = {}]
    /\ user' = [user EXCEPT ![p] = <<>>]
    /\ ret' = [ret EXCEPT ![p] = [op |-> req[p].op, err |-> err, val |-> val]]

\* return nil, err: the deferred tx.Rollback() drops the transaction's writes.
\* Variant: the statements run on r.db instead of tx, what they wrote stays
\* when the call returns an error.
ReturnKeepingWrites(p, err) ==
    /\ Return(p, err, <<>>)
    /\ users' = txUsers[p] @@ users
    /\ tasks' = tasks \cup txTasks[p]
    /\ UNCHANGED log

\* Variant: no deferred Rollback, the call returns with its transaction left
\* open: the rows it wrote stay locked.
ReturnWithoutRollback(p, err) ==
    /\ pc' = [pc EXCEPT ![p] = "idle"]
    /\ req' = [req EXCEPT ![p] = NoReq]
    /\ user' = [user EXCEPT ![p] = <<>>]
    /\ ret' = [ret EXCEPT ![p] = [op |-> req[p].op, err |-> err, val |-> <<>>]]
    /\ UNCHANGED <<users, tasks, log, txUsers, txTasks>>

Rollback(p, err) ==
    /\ Return(p, err, <<>>)
    /\ UNCHANGED <<users, tasks, log>>

\* tx.Commit(): the transaction's writes become the committed rows, at once.
\* Variant: the INSERT replaces the Task row the user already has (one row
\* per user).
CommitTxOneTaskPerUser(p) ==
    /\ users' = txUsers[p] @@ users
    /\ tasks' = {t \in tasks : \A n \in txTasks[p] : t.user_id # n.user_id}
                   \cup txTasks[p]
    /\ log' = Append(log, req[p])

CommitTx(p) ==
    /\ users' = txUsers[p] @@ users
    /\ tasks' = tasks \cup txTasks[p]
    /\ log' = Append(log, req[p])

\* ------------------------------------------------------------- LoginUser
\* INSERT INTO users (username, passw): the UNIQUE constraint on username
\* rejects a name in use; id is a fresh uuid (here the next unused number).
\* Names are interchangeable, so a request carries a name in use or the
\* first unused one.
\* Variant: table users without the UNIQUE constraint on username.
InsertUserNoUnique(rows, username) ==
    LET id == Cardinality(DOMAIN rows) + 1
    IN (id :> NewUserRow(id, username)) @@ rows

\* The rows after the INSERT (unchanged when it is rejected).
InsertUser(rows, username) ==
    IF \E id \in DOMAIN rows : rows[id].username = username
    THEN rows
    ELSE LET id == Cardinality(DOMAIN rows) + 1
         IN (id :> NewUserRow(id, username)) @@ rows

LoginUser(username) ==
    /\ Cardinality(DOMAIN users) < MaxUsers
    /\ username <= Cardinality(DOMAIN users) + 1
    /\ users' = InsertUser(users, username)
    /\ UNCHANGED <<tasks, pc, req, txUsers, txTasks, user, ret, log, ncalls, got, caller>>

\* ---------------------------------------------------------- CompleteTask
\* Entry and r.db.BeginTx.
CompleteTaskBegin(p, userID, taskType, points, beginOk) ==
    /\ pc[p] = "idle"
    /\ ncalls < MaxCalls
    /\ ncalls' = ncalls + 1
    /\ UNCHANGED got
    /\ IF beginOk
       THEN /\ pc' = [pc EXCEPT ![p] = "ct_exists"]
            /\ req' = [req EXCEPT ![p] =
                         [op |-> "CompleteTask", callID |-> ncalls + 1,
                          userID |-> userID, referrerID |-> 0,
                          taskType |-> taskType, points |-> points]]
            /\ ret' = [ret EXCEPT ![p] = NoRet]
       ELSE /\ UNCHANGED <<pc, req>>
            /\ ret' = [ret EXCEPT ![p] = [op |-> "CompleteTask",
                                          err |-> ErrBegin, val |-> <<>>]]
    /\ UNCHANGED <<users, tasks, txUsers, txTasks, user, log>>

\* SELECT EXISTS(SELECT 1 FROM users WHERE id = $1); if !exists return.
\* Variant: the result of the existence check is not looked at.
CompleteTaskCheckUserSkipped(p) ==
    /\ pc[p] = "ct_exists"
    /\ pc' = [pc EXCEPT ![p] = "ct_insert"]
    /\ UNCHANGED <<users, tasks, req, txUsers, txTasks, user, ret, log, ncalls, got, caller>>

CompleteTaskCheckUser(p) ==
    /\ pc[p] = "ct_exists"
    /\ IF UserExists(p, req[p].userID)
       THEN /\ pc' = [pc EXCEPT ![p] = "ct_insert"]
            /\ UNCHANGED <<users, tasks, req, txUsers, txTasks, user, ret, log>>
       ELSE Rollback(p, ErrUserNotFound)
    /\ UNCHANGED <<ncalls, got, caller>>

\* task := &models.Task{ID: uuid.New(), ...}: the id is fresh per call.
NewTask(r) ==
    [id |-> r.callID, user_id |-> r.userID, task_type |-> r.taskType,
     points |-> r.points]

\* Constraints of table tasks: positive_points CHECK (points > 0) and
\* user_id REFERENCES users(id).
\* Variant: table tasks without the positive_points CHECK.
TaskConstraintsNoCheck(p, t) == UserExists(p, t.user_id)

TaskConstraintsOk(p, t) ==
    /\ t.points > 0
    /\ UserExists(p, t.user_id)

\* Variant: the INSERT issued on r.db, outside the transaction (autocommit).
CompleteTaskInsertOutsideTx(p) ==
    /\ pc[p] = "ct_insert"
    /\ IF TaskConstraintsOk(p, NewTask(req[p]))
       THEN /\ tasks' = tasks \cup {NewTask(req[p])}
            /\ pc' = [pc EXCEPT ![p] = "ct_update"]
            /\ UNCHANGED <<users, req, txUsers, txTasks, user, ret, log>>
       ELSE Rollback(p, "failed to insert task")
    /\ UNCHANGED <<ncalls, got, caller>>

\* INSERT INTO tasks (...) inside the transaction.
CompleteTaskInsert(p) ==
    /\ pc[p] = "ct_insert"
    /\ IF TaskConstraintsOk(p, NewTask(req[p]))
       THEN /\ txTasks' = [txTasks EXCEPT ![p] = @ \cup {NewTask(req[p])}]
            /\ pc' = [pc EXCEPT ![p] = "ct_update"]
            /\ UNCHANGED <<users, tasks, req, txUsers, user, ret, log>>
       ELSE Rollback(p, "failed to insert task")
    /\ UNCHANGED <<ncalls, got, caller>>

\* UPDATE users SET points = points + $1 WHERE id = $2, on the rows the
\* statement sees; the statement waits while another transaction holds the
\* row's lock.
\* Variant: SET points = $1, the balance overwritten instead of increased.
AddPointsOverwrite(p, id, n) ==
    IF id \in DOMAIN Visible(p)
    THEN [txUsers EXCEPT ![p] =
            (id :> [Visible(p)[id] EXCEPT !.points = n]) @@ @]
    ELSE txUsers

AddPoints(p, id, n) ==
    IF id \in DOMAIN Visible(p)
    THEN [txUsers EXCEPT ![p] =
            (id :> [Visible(p)[id] EXCEPT !.points = @ + n]) @@ @]
    ELSE txUsers

\* Variant: the UPDATE does not wait for the row's lock, it works on the row
\* version committed when it runs.
CompleteTaskUpdatePointsNoWait(p) ==
    /\ pc[p] = "ct_update"
    /\ txUsers' = AddPoints(p, req[p].userID, req[p].points)
    /\ pc' = [pc EXCEPT ![p] = "ct_commit"]
    /\ UNCHANGED <<users, tasks, req, txTasks, user, ret, log, ncalls, got, caller>>

CompleteTaskUpdatePoints(p) ==
    /\ pc[p] = "ct_update"
    /\ ~LockedByOther(p, req[p].userID)
    /\ txUsers' = AddPoints(p, req[p].userID, req[p].points)
    /\ pc' = [pc EXCEPT ![p] = "ct_commit"]
    /\ UNCHANGED <<users, tasks, req, txTasks, user, ret, log, ncalls, got, caller>>

\* tx.Commit(); return task, nil.
CompleteTaskCommit(p) ==
    /\ pc[p] = "ct_commit"
    /\ CommitTx(p)
    /\ Return(p, NoErr, <<NewTask(req[p])>>)
    /\ UNCHANGED <<ncalls, got, caller>>

\* ----------------------------------------------------------- AddReferrer
\* Entry and r.db.BeginTx.
AddReferrerBegin(p, userID, referrerID, beginOk) ==
    /\ pc[p] = "idle"
    /\ ncalls < MaxCalls
    /\ ncalls' = ncalls + 1
    /\ UNCHANGED got
    /\ IF beginOk
       THEN /\ pc' = [pc EXCEPT ![p] = "ar_ref_exists"]
            /\ req' = [req EXCEPT ![p] =
                         [op |-> "AddReferrer", callID |-> ncalls + 1,
                          userID |-> userID, referrerID |-> referrerID,
                          taskType |-> "", points |-> 0]]
            /\ ret' = [ret EXCEPT ![p] = NoRet]
       ELSE /\ UNCHANGED <<pc, req>>
            /\ ret' = [ret EXCEPT ![p] = [op |-> "AddReferrer",
                                          err |-> ErrBegin, val |-> <<>>]]
    /\ UNCHANGED <<users, tasks, txUsers, txTasks, user, log>>

\* SELECT EXISTS(SELECT 1 FROM users WHERE id = $1) for referrerID.
\* Variant: the user row is looked up before the referrer row.
AddReferrerCheckUserFirst(p) ==
    /\ pc[p] = "ar_ref_exists"
    /\ IF ~UserExists(p, req[p].userID)
       THEN Rollback(p, ErrUserNotFound)
       ELSE IF UserExists(p, req[p].referrerID)
       THEN /\ pc' = [pc EXCEPT ![p] = "ar_has_referrer"]
            /\ UNCHANGED <<users, tasks, req, txUsers, txTasks, user, ret, log>>
       ELSE Rollback(p, ErrReferrerNotFound)
    /\ UNCHANGED <<ncalls, got, caller>>

AddReferrerCheckReferrer(p) ==
    /\ pc[p] = "ar_ref_exists"
    /\ IF UserExists(p, req[p].referrerID)
       THEN /\ pc' = [pc EXCEPT ![p] = "ar_has_referrer"]
            /\ UNCHANGED <<users, tasks, req, txUsers, txTasks, user, ret, log>>
       ELSE Rollback(p, ErrReferrerNotFound)
    /\ UNCHANGED <<ncalls, got, caller>>

\* SELECT referrer_id IS NOT NULL FROM users WHERE id = $1 for userID: a
\* plain read, it takes no lock and waits for none.  The result is the
\* error the call returns here, NoErr when it goes on.
\* Variant: the hasReferrer branch left out.
HasReferrerCheckNoConflict(rows, userID) ==
    IF userID \notin DOMAIN rows THEN ErrUserNotFound ELSE NoErr

\* Variant: sql.ErrNoRows is not told apart, a missing row reads as "no
\* referrer".
HasReferrerCheckNoRowsIgnored(rows, userID) ==
    IF userID \in DOMAIN rows /\ rows[userID].referrer_id # NULL
    THEN ErrAlreadyHasReferrer
    ELSE NoErr

HasReferrerCheck(rows, userID) ==
    IF userID \notin DOMAIN rows THEN ErrUserNotFound
    ELSE IF rows[userID].referrer_id # NULL THEN ErrAlreadyHasReferrer
    ELSE NoErr

\* Variant: a referrer whose own referrer is the user is rejected (no
\* referral cycles).
AddReferrerCheckUserNoCycle(p) ==
    /\ pc[p] = "ar_has_referrer"
    /\ IF HasReferrerCheck(Visible(p), req[p].userID) # NoErr
       THEN Rollback(p, HasReferrerCheck(Visible(p), req[p].userID))
       ELSE IF Visible(p)[req[p].referrerID].referrer_id = req[p].userID
       THEN Rollback(p, "referral cycle")
       ELSE /\ pc' = [pc EXCEPT ![p] = "ar_set_referrer"]
            /\ UNCHANGED <<users, tasks, req, txUsers, txTasks, user, ret, log>>
    /\ UNCHANGED <<ncalls, got, caller>>

AddReferrerCheckUser(p) ==
    /\ pc[p] = "ar_has_referrer"
    /\ IF HasReferrerCheck(Visible(p), req[p].userID) = NoErr
       THEN /\ pc' = [pc EXCEPT ![p] = "ar_set_referrer"]
            /\ UNCHANGED <<users, tasks, req, txUsers, txTasks, user, ret, log>>
       ELSE Rollback(p, HasReferrerCheck(Visible(p), req[p].userID))
    /\ UNCHANGED <<ncalls, got, caller>>

\* UPDATE users SET referrer_id = $1 WHERE id = $2 on the rows the statement
\* sees (no row: nothing is updated).
\* Variant: ... WHERE id = $2 AND referrer_id IS NULL, a referrer that is
\* set is kept.
SetReferrerIfNull(p, id, referrerID) ==
    IF id \in DOMAIN Visible(p) /\ Visible(p)[id].referrer_id = NULL
    THEN [txUsers EXCEPT ![p] =
            (id :> [Visible(p)[id] EXCEPT !.referrer_id = referrerID]) @@ @]
    ELSE txUsers

SetReferrer(p, id, referrerID) ==
    IF id \in DOMAIN Visible(p)
    THEN [txUsers EXCEPT ![p] =
            (id :> [Visible(p)[id] EXCEPT !.referrer_id = referrerID]) @@ @]
    ELSE txUsers

\* The statement waits while another transaction holds the row's lock; the
\* foreign key users.referrer_id REFERENCES users(id) is checked.
AddReferrerSetReferrer(p) ==
    /\ pc[p] = "ar_set_referrer"
    /\ ~LockedByOther(p, req[p].userID)
    /\ IF UserExists(p, req[p].referrerID)
       THEN /\ txUsers' = SetReferrer(p, req[p].userID, req[p].referrerID)
            /\ pc' = [pc EXCEPT ![p] = "ar_bonus"]
            /\ UNCHANGED <<users, tasks, req, txTasks, user, ret, log>>
       ELSE Rollback(p, "failed to update user referrer")
    /\ UNCHANGED <<ncalls, got, caller>>

\* Variant: the bonus UPDATE given userID instead of referrerID.
AddReferrerBonusToUser(p) ==
    /\ pc[p] = "ar_bonus"
    /\ ~LockedByOther(p, req[p].userID)
    /\ txUsers' = AddPoints(p, req[p].userID, BonusPoints)
    /\ pc' = [pc EXCEPT ![p] = "ar_reread"]
    /\ UNCHANGED <<users, tasks, req, txTasks, user, ret, log, ncalls, got, caller>>

\* UPDATE users SET points = points + $1 WHERE id = $2 with the bonus, for
\* referrerID.
\* Variant: the bonus is also paid to the referrer's own referrer (a
\* two-level referral chain).
AddReferrerBonusChain(p) ==
    /\ pc[p] = "ar_bonus"
    /\ ~LockedByOther(p, req[p].referrerID)
    /\ LET t1 == AddPoints(p, req[p].referrerID, BonusPoints)
           rows == t1[p] @@ users
           g == IF req[p].referrerID \in DOMAIN rows
                THEN rows[req[p].referrerID].referrer_id ELSE NULL
       IN txUsers' = IF g # NULL /\ g \in DOMAIN rows
                     THEN [t1 EXCEPT ![p] =
                             (g :> [rows[g] EXCEPT !.points = @ + BonusPoints])
                                @@ @]
                     ELSE t1
    /\ pc' = [pc EXCEPT ![p] = "ar_reread"]
    /\ UNCHANGED <<users, tasks, req, txTasks, user, ret, log, ncalls, got, caller>>

AddReferrerBonus(p) ==
    /\ pc[p] = "ar_bonus"
    /\ ~LockedByOther(p, req[p].referrerID)
    /\ txUsers' = AddPoints(p, req[p].referrerID, BonusPoints)
    /\ pc' = [pc EXCEPT ![p] = "ar_reread"]
    /\ UNCHANGED <<users, tasks, req, txTasks, user, ret, log, ncalls, got, caller>>

\* Scan of a users row into models.User: referrer_id goes through
\* sql.NullString and uuid.Parse into the optional ReferrerID (<<>>: nil).
ScanUser(row) ==
    [id |-> row.id, username |-> row.username, points |-> row.points,
     referrer_id |-> IF row.referrer_id = NULL THEN <<>>
                     ELSE <<row.referrer_id>>]

\* SELECT id, username, points, referrer_id, ... FROM users WHERE id = $1
\* for userID, inside the transaction.
\* Variant: the SELECT issued on r.db, it reads the committed row.
AddReferrerRereadOutsideTx(p) ==
    /\ pc[p] = "ar_reread"
    /\ IF req[p].userID \in DOMAIN users
       THEN /\ user' = [user EXCEPT ![p] = <<ScanUser(users[req[p].userID])>>]
            /\ pc' = [pc EXCEPT ![p] = "ar_commit"]
            /\ UNCHANGED <<users, tasks, req, txUsers, txTasks, ret, log>>
       ELSE Rollback(p, "failed to get updated user")
    /\ UNCHANGED <<ncalls, got, caller>>

AddReferrerReread(p) ==
    /\ pc[p] = "ar_reread"
    /\ IF req[p].userID \in DOMAIN Visible(p)
       THEN /\ user' = [user EXCEPT ![p] = <<ScanUser(Visible(p)[req[p].userID])>>]
            /\ pc' = [pc EXCEPT ![p] = "ar_commit"]
            /\ UNCHANGED <<users, tasks, req, txUsers, txTasks, ret, log>>
       ELSE Rollback(p, "failed to get updated user")
    /\ UNCHANGED <<ncalls, got, caller>>

\* tx.Commit(); return &user, nil.
AddReferrerCommit(p) ==
    /\ pc[p] = "ar_commit"
    /\ CommitTx(p)
    /\ Return(p, NoErr, user[p])
    /\ UNCHANGED <<ncalls, got, caller>>

\* -------------------------------------------------------------- failures
\* The error each statement's failure is wrapped into.
FailMsg(at) ==
    CASE at = "ct_exists" -> "failed to check user existence"
      [] at = "ct_insert" -> "failed to insert task"
      [] at = "ct_update" -> "failed to update user points"
      [] at = "ct_commit" -> "failed to commit transaction"
      [] at = "ar_ref_exists" -> "failed to check referrer existence"
      [] at = "ar_has_referrer" -> "failed to check user referrer"
      [] at = "ar_set_referrer" -> "failed to update user referrer"
      [] at = "ar_bonus" -> "failed to update referrer points"
      [] at = "ar_reread" -> "failed to get updated user"
      [] at = "ar_commit" -> "failed to commit transaction"

InTx(p) == pc[p] # "idle"

\* A statement (or the commit) fails in the store or the driver: connection
\* lost, context cancelled.  The call returns the wrapped error and the
\* deferred Rollback undoes the transaction.
StoreFail(p) ==
    /\ InTx(p)
    /\ Rollback(p, FailMsg(pc[p]))
    /\ UNCHANGED <<ncalls, got, caller>>

\* The row the UPDATE transaction p is about to execute writes (0: none).
WantedRow(p) ==
    CASE pc[p] = "ct_update" -> req[p].userID
      [] pc[p] = "ar_set_referrer" -> req[p].userID
      [] pc[p] = "ar_bonus" -> req[p].referrerID
      [] OTHER -> 0

\* p waits for a row lock that q holds.
WaitsFor(p, q) == p # q /\ q \in LockHolders(WantedRow(p))

\* The transactions reachable from those of S along at most n waits.
RECURSIVE Waited(_, _)
Waited(S, n) ==
    IF n = 0 THEN S
    ELSE Waited(S \cup {q \in Procs : \E r \in S : WaitsFor(r, q)}, n - 1)

Deadlocked(p) ==
    \E q \in Procs : WaitsFor(p, q) /\ p \in Waited({q}, NumProcs)

\* PostgreSQL's deadlock detector: a transaction waiting in a cycle of lock
\* waits has its statement fail (deadlock detected); the call returns the
\* wrapped error and rolls back.
DeadlockAbort(p) ==
    /\ Deadlocked(p)
    /\ Rollback(p, FailMsg(pc[p]))
    /\ UNCHANGED <<ncalls, got, caller>>

\* UserService.CompleteTask / AddReferrer called with any arguments, not on
\* behalf of a token.
CompleteTaskCall(p, userID, taskType, points, beginOk) ==
    /\ CompleteTaskBegin(p, userID, taskType, points, beginOk)
    /\ UNCHANGED caller

AddReferrerCall(p, userID, referrerID, beginOk) ==
    /\ AddReferrerBegin(p, userID, referrerID, beginOk)
    /\ UNCHANGED caller

Next ==
    \/ \E n \in Usernames : LoginUser(n)
    \/ \E p \in Procs, u \in UserIDs, t \in TaskTypes, n \in PointsInputs,
          ok \in BOOLEAN : CompleteTaskCall(p, u, t, n, ok)
    \/ \E p \in Procs : CompleteTaskCheckUser(p)
    \/ \E p \in Procs : CompleteTaskInsert(p)
    \/ \E p \in Procs : CompleteTaskUpdatePoints(p)
    \/ \E p \in Procs : CompleteTaskCommit(p)
    \/ \E p \in Procs, u \in UserIDs, r \in UserIDs, ok \in BOOLEAN :
          AddReferrerCall(p, u, r, ok)
    \/ \E p \in Procs : AddReferrerCheckReferrer(p)
    \/ \E p \in Procs : AddReferrerCheckUser(p)
    \/ \E p \in Procs : AddReferrerSetReferrer(p)
    \/ \E p \in Procs : AddReferrerBonus(p)
    \/ \E p \in Procs : AddReferrerReread(p)
    \/ \E p \in Procs : AddReferrerCommit(p)
    \/ \E p \in Procs : StoreFail(p)
    \/ \E p \in Procs : DeadlockAbort(p)

Spec == Init /\ [][Next]_vars

\* The statements of request p: each one is executed once it can be (the
\* goroutine serving the request runs on, the store answers, the deadlock
\* detector runs).  New requests and failures of the store may or may not
\* happen.
ProcStep(p) ==
    \/ CompleteTaskCheckUser(p)
    \/ CompleteTaskInsert(p)
    \/ CompleteTaskUpdatePoints(p)
    \/ CompleteTaskCommit(p)
    \/ AddReferrerCheckReferrer(p)
    \/ AddReferrerCheckUser(p)
    \/ AddReferrerSetReferrer(p)
    \/ AddReferrerBonus(p)
    \/ AddReferrerReread(p)
    \/ AddReferrerCommit(p)
    \/ DeadlockAbort(p)

FairSpec == Spec /\ \A p \in Procs : WF_vars(ProcStep(p))

\* ---------------------------------------------------------------- queries
\* GetUserByID and GetLeaderboard are single SELECTs on r.db, outside any
\* transaction: they read the committed rows and write nothing.  They are
\* checked on stores drawn from the histories below.

\* Number of columns the SELECT lists and of destinations Scan is given.
GetUserByIDColumns == 6
GetUserByIDDests == 7
GetLeaderboardColumns == 6
GetLeaderboardDests == 6

ErrNoRows == "sql: no rows in result set"
ErrScanArgs == "sql: wrong number of destination arguments in Scan"
ErrQuery == "context canceled"
ErrNegativeLimit == "pq: LIMIT must not be negative"

\* fmt.Errorf("msg: %w", err)
Wrap(msg, err) == msg \o ": " \o err

\* database/sql Row.Scan / Rows.Scan: the error of the query comes first,
\* then the missing row, then the count of destinations against columns.
RowScan(queryOk, rowPresent, ncols, ndests) ==
    IF ~queryOk THEN ErrQuery
    ELSE IF ~rowPresent THEN ErrNoRows
    ELSE IF ndests # ncols THEN ErrScanArgs
    ELSE NoErr

\* Variant: sql.ErrNoRows is treated like every other error.
GetUserByIDResultNoRowsIsError(rows, id, queryOk) ==
    LET e == RowScan(queryOk, id \in DOMAIN rows,
                     GetUserByIDColumns, GetUserByIDDests)
    IN IF e # NoErr
       THEN [err |-> Wrap("failed to get user", e), val |-> <<>>]
       ELSE [err |-> NoErr, val |-> <<ScanUser(rows[id])>>]

\* Repository.GetUserByID: (user, err) with val <<>> for a nil user.
GetUserByIDResult(rows, id, queryOk) ==
    LET e == RowScan(queryOk, id \in DOMAIN rows,
                     GetUserByIDColumns, GetUserByIDDests)
    IN IF e = ErrNoRows THEN [err |-> NoErr, val |-> <<>>]
       ELSE IF e # NoErr
       THEN [err |-> Wrap("failed to get user", e), val |-> <<>>]
       ELSE [err |-> NoErr, val |-> <<ScanUser(rows[id])>>]

GetUserByID(id, queryOk) ==
    /\ LET r == GetUserByIDResult(users, id, queryOk)
       IN got' = [op |-> "GetUserByID", arg |-> id, err |-> r.err,
                  val |-> r.val, status |-> 0]
    /\ UNCHANGED <<users, tasks, pc, req, txUsers, txTasks, user, ret, log,
                   ncalls, caller>>

\* UserHandler.GetUserStatus: auth is what the Authorization header yields,
\* -1 for a token ValidateToken rejects, 0 for a subject that is no uuid,
\* else the user id of the claims.  UserService.GetUserByID passes the
\* repository's result on.
AuthInputs == (0 - 1)..MaxUsers

GetUserStatusResponse(rows, auth, queryOk) ==
    IF auth < 0 THEN [status |-> 401, err |-> "Invalid token", val |-> <<>>]
    ELSE IF auth = 0
    THEN [status |-> 400, err |-> "Invalid user ID format", val |-> <<>>]
    ELSE LET r == GetUserByIDResult(rows, auth, queryOk)
         IN IF r.err # NoErr THEN [status |-> 500, err |-> r.err, val |-> <<>>]
            ELSE IF r.val = <<>>
            THEN [status |-> 404, err |-> "User not found", val |-> <<>>]
            ELSE [status |-> 200, err |-> NoErr, val |-> r.val]

GetUserStatus(auth, queryOk) ==
    /\ LET r == GetUserStatusResponse(users, auth, queryOk)
       IN got' = [op |-> "GetUserStatus", arg |-> auth, err |-> r.err,
                  val |-> r.val, status |-> r.status]
    /\ UNCHANGED <<users, tasks, pc, req, txUsers, txTasks, user, ret, log,
                   ncalls, caller>>

\* ORDER BY points DESC: the orders the store may return the rows in; rows
\* of equal points come in any order.
\* Variant: no ORDER BY, the rows come in any order.
LeaderboardOrdersUnsorted(rows) ==
    {o \in [1..Cardinality(DOMAIN rows) -> DOMAIN rows] :
        \A i, j \in DOMAIN o : i < j => o[i] # o[j]}

LeaderboardOrders(rows) ==
    {o \in [1..Cardinality(DOMAIN rows) -> DOMAIN rows] :
        \A i, j \in DOMAIN o :
            i < j => o[i] # o[j] /\ rows[o[i]].points >= rows[o[j]].points}

Min(a, b) == IF a < b THEN a ELSE b

LimitInputs == (0 - 1)..(MaxUsers + 1)

\* Repository.GetLeaderboard with the rows coming in order o: LIMIT $1 cuts
\* the result (a negative limit is an error of the statement), each row is
\* scanned and appended.
GetLeaderboardResult(rows, o, limit, queryOk) ==
    IF ~queryOk
    THEN [err |-> Wrap("failed to query leaderboard", ErrQuery), val |-> <<>>]
    ELSE IF limit < 0
    THEN [err |-> Wrap("failed to query leaderboard", ErrNegativeLimit),
          val |-> <<>>]
    ELSE IF Min(limit, Len(o)) > 0
            /\ RowScan(TRUE, TRUE, GetLeaderboardColumns,
                       GetLeaderboardDests) # NoErr
    THEN [err |-> Wrap("failed to scan user", ErrScanArgs), val |-> <<>>]
    ELSE [err |-> NoErr,
          val |-> [i \in 1..Min(limit, Len(o)) |-> ScanUser(rows[o[i]])]]

GetLeaderboard(limit, queryOk) ==
    /\ \E o \in LeaderboardOrders(users) :
          LET r == GetLeaderboardResult(users, o, limit, queryOk)
          IN got' = [op |-> "GetLeaderboard", arg |-> limit, err |-> r.err,
                     val |-> r.val, status |-> 0]
    /\ UNCHANGED <<users, tasks, pc, req, txUsers, txTasks, user, ret, log,
                   ncalls, caller>>

\* The calls that built a store of n users in which user u completed one task
\* of award[u] points (none when 0) and was referred by ref[u] (NULL: by
\* nobody), run one after the other.
RECURSIVE History(_, _, _)
History(n, award, ref) ==
    IF n = 0 THEN <<>>
    ELSE LET h == History(n - 1, award, ref)
             h1 == IF award[n] = 0 THEN h
                   ELSE Append(h, [op |-> "CompleteTask", callID |-> Len(h) + 1,
                                   userID |-> n, referrerID |-> 0,
                                   taskType |-> "quiz", points |-> award[n]])
         IN IF ref[n] = NULL THEN h1
            ELSE Append(h1, [op |-> "AddReferrer", callID |-> Len(h1) + 1,
                             userID |-> n, referrerID |-> ref[n],
                             taskType |-> "", points |-> 0])

\* The committed rows that history leaves.
StoreAfter(n, award, ref) ==
    [u \in 1..n |->
        [id |-> u, username |-> u,
         points |-> award[u]
                      + BonusPoints * Cardinality({v \in 1..n : ref[v] = u}),
         referrer_id |-> ref[u]]]

\* Stores of up to MaxUsers users, each with a task balance up to MaxBalance
\* and referred by nobody or by the user registered just before; no call in
\* progress.
QueryInit ==
    \E n \in 0..MaxUsers :
      \E award \in [1..n -> 0..MaxBalance], ref \in [1..n -> 0..MaxUsers] :
        /\ \A u \in 1..n : ref[u] = NULL \/ (ref[u] = u - 1 /\ u > 1)
        /\ users = StoreAfter(n, award, ref)
        /\ log = History(n, award, ref)
        /\ tasks = {NewTask(History(n, award, ref)[i]) :
                       i \in {j \in 1..Len(History(n, award, ref)) :
                                History(n, award, ref)[j].op = "CompleteTask"}}
        /\ ncalls = Len(History(n, award, ref))
        /\ pc = [p \in Procs |-> "idle"]
        /\ req = [p \in Procs |-> NoReq]
        /\ txUsers = [p \in Procs |-> EmptyRows]
        /\ txTasks = [p \in Procs |-> {}]
        /\ user = [p \in Procs |-> <<>>]
        /\ ret = [p \in Procs |-> NoRet]
        /\ got = NoGot
        /\ caller = [p \in Procs |-> 0]

QueryNext ==
    \/ \E id \in UserIDs, ok \in BOOLEAN : GetUserByID(id, ok)
    \/ \E auth \in AuthInputs, ok \in BOOLEAN : GetUserStatus(auth, ok)
    \/ \E limit \in LimitInputs, ok \in BOOLEAN : GetLeaderboard(limit, ok)

QuerySpec == QueryInit /\ [][QueryNext]_vars

\* ----------------------------------------------------------- registration
\* UserHandler.LoginUser (POST /users/register, served without a token) over
\* Repository.LoginUser: the INSERT and then SELECT ... WHERE username = $1,
\* two statements on r.db without a transaction.  username 0 is the empty
\* string; insertOk / selectOk tell whether the store executes the statement.
RegisterNames == 0..MaxUsers

\* Repository.LoginUser: the rows it leaves and the (user, err) it returns.
LoginUserResult(rows, username, insertOk, selectOk) ==
    IF ~insertOk \/ InsertUser(rows, username) = rows
    THEN [rows |-> rows, err |-> "failed to register user", val |-> <<>>]
    ELSE IF ~selectOk
    THEN [rows |-> InsertUser(rows, username),
          err |-> "failed to register user", val |-> <<>>]
    ELSE LET new == CHOOSE id \in DOMAIN InsertUser(rows, username) :
                       InsertUser(rows, username)[id].username = username
         IN [rows |-> InsertUser(rows, username), err |-> NoErr,
             val |-> <<[id |-> new, username |-> username]>>]

\* The response: 400 without username or password, 500 on a service error,
\* else 201 with the user and a token whose user_id claim is the new id.
RegisterUser(username, hasPassword, insertOk, selectOk) ==
    /\ username <= Cardinality(DOMAIN users) + 1
    /\ IF username = 0 \/ ~hasPassword
       THEN /\ got' = [op |-> "RegisterUser", arg |-> username,
                       err |-> "Username and password are required",
                       val |-> <<>>, status |-> 400]
            /\ UNCHANGED users
       ELSE LET r == LoginUserResult(users, username, insertOk, selectOk)
            IN /\ users' = r.rows
               /\ got' = [op |-> "RegisterUser", arg |-> username,
                          err |-> r.err,
                          val |-> IF r.err = NoErr
                                  THEN <<[user |-> r.val[1],
                                          token |-> r.val[1].id]>>
                                  ELSE <<>>,
                          status |-> IF r.err = NoErr THEN 201 ELSE 500]
    /\ UNCHANGED <<tasks, pc, req, txUsers, txTasks, user, ret, log, ncalls,
                   caller>>

RegisterNext ==
    \E n \in RegisterNames, pw \in BOOLEAN, iok \in BOOLEAN, sok \in BOOLEAN :
        RegisterUser(n, pw, iok, sok)

RegisterSpec == QueryInit /\ [][RegisterNext]_vars

\* ---------------------------------------------------------- HTTP boundary
\* Router.Setup mounts /users/register without JWTAuth and every other path
\* behind it; the handlers of /users/task/complete and /users/referrer then
\* validate the token again, take the acting user from its user_id claim,
\* validate the body and call the service.

\* What the Authorization header of a request holds: nothing, a string the
\* parser rejects, a token past its expiry, or a token signed by the service
\* with its user_id claim (0: a claim that is no uuid).
AuthHeaders ==
    {[kind |-> k, user |-> 0] : k \in {"none", "invalid", "expired"}}
        \cup {[kind |-> "valid", user |-> u] : u \in 0..MaxUsers}

ErrInvalidToken == "invalid token"
ErrExpiredToken == "token expired"

\* jwt.Service.ValidateToken: (claims, err).
ValidateToken(header) ==
    IF header.kind = "expired" THEN [err |-> ErrExpiredToken, userID |-> 0]
    ELSE IF header.kind # "valid" THEN [err |-> ErrInvalidToken, userID |-> 0]
    ELSE [err |-> NoErr, userID |-> header.user]

\* The request goes on to the next handler.
Pass == [status |-> 0, err |-> NoErr]

\* Variant: the protected routes are mounted without the middleware.
JWTAuthAbsent(header) == Pass

\* middleware.JWTAuth: the http.Error it answers, or Pass.
JWTAuth(header) ==
    IF header.kind = "none"
    THEN [status |-> 401, err |-> "Authorization header is required"]
    ELSE IF ValidateToken(header).err = ErrExpiredToken
    THEN [status |-> 401, err |-> "Token expired"]
    ELSE IF ValidateToken(header).err # NoErr
    THEN [status |-> 401, err |-> "Invalid token"]
    ELSE Pass

\* Router.Setup: the middleware a path is served behind.
Route(path, header) ==
    IF path = "/users/register" THEN Pass ELSE JWTAuth(header)

\* The user the handlers act for: claims.UserID.  named is a user id the
\* request carries elsewhere (query string, field of the body), which the
\* handlers do not read.
\* Variant: the handlers act for the user the request names.
ActingUserNamed(header, named) == named

ActingUser(header, named) == ValidateToken(header).userID

\* UserHandler.CompleteTask up to the call of the service: the first
\* http.Error it answers, or Pass.  bodyOk: the body decodes as TaskRequest.
CompleteTaskRequest(header, named, bodyOk, taskType, points) ==
    IF ValidateToken(header).err # NoErr
    THEN [status |-> 401, err |-> "Invalid token"]
    ELSE IF ActingUser(header, named) = 0
    THEN [status |-> 400, err |-> "Invalid user ID format"]
    ELSE IF ~bodyOk THEN [status |-> 400, err |-> "Invalid request body"]
    ELSE IF taskType = ""
    THEN [status |-> 400, err |-> "Task type is required"]
    ELSE IF points <= 0
    THEN [status |-> 400, err |-> "Points must be positive"]
    ELSE Pass

\* The referrer_id of a ReferrerRequest: -1 the empty string, 0 a string
\* that is no uuid, else a user id.
ReferrerInputs == (0 - 1)..MaxUsers

\* Variant: the handler does not compare userID with referrerID.
AddReferrerRequestSelfAllowed(header, named, bodyOk, referrer) ==
    IF ValidateToken(header).err # NoErr
    THEN [status |-> 401, err |-> "Invalid token"]
    ELSE IF ActingUser(header, named) = 0
    THEN [status |-> 400, err |-> "Invalid user ID format"]
    ELSE IF ~bodyOk THEN [status |-> 400, err |-> "Invalid request body"]
    ELSE IF referrer < 0
    THEN [status |-> 400, err |-> "Referrer ID is required"]
    ELSE IF referrer = 0
    THEN [status |-> 400, err |-> "Invalid referrer ID format"]
    ELSE Pass

ErrSelfReferrer == "User cannot add themselves as referrer"

\* UserHandler.AddReferrer up to the call of the service.
AddReferrerRequest(header, named, bodyOk, referrer) ==
    IF ValidateToken(header).err # NoErr
    THEN [status |-> 401, err |-> "Invalid token"]
    ELSE IF ActingUser(header, named) = 0
    THEN [status |-> 400, err |-> "Invalid user ID format"]
    ELSE IF ~bodyOk THEN [status |-> 400, err |-> "Invalid request body"]
    ELSE IF referrer < 0
    THEN [status |-> 400, err |-> "Referrer ID is required"]
    ELSE IF referrer = 0
    THEN [status |-> 400, err |-> "Invalid referrer ID format"]
    ELSE IF ActingUser(header, named) = referrer
    THEN [status |-> 400, err |-> ErrSelfReferrer]
    ELSE Pass

\* http.Error(w, r.err, r.status); return: the request is answered without
\* the service being called.  The answer keeps what the header held.
Reject(p, op, header, r) ==
    /\ pc[p] = "idle"
    /\ ncalls < MaxCalls
    /\ ncalls' = ncalls + 1
    /\ ret' = [ret EXCEPT ![p] = [op |-> op, err |-> r.err, val |-> <<>>,
                                  status |-> r.status, auth |-> header.kind]]
    /\ UNCHANGED <<users, tasks, pc, req, txUsers, txTasks, user, log, got,
                   caller>>

\* POST /users/task/complete, served by p when it is free; the request is
\* drawn from the sets of inputs.
HandleCompleteTask(p) ==
    /\ pc[p] = "idle"
    /\ ncalls < MaxCalls
    /\ \E header \in AuthHeaders, named \in UserIDs, bodyOk \in BOOLEAN,
          taskType \in TaskTypes, points \in PointsInputs,
          beginOk \in BOOLEAN :
          LET a == Route("/users/task/complete", header)
              r == IF a # Pass THEN a
                   ELSE CompleteTaskRequest(header, named, bodyOk, taskType,
                                            points)
          IN IF r # Pass THEN Reject(p, "CompleteTask", header, r)
             ELSE /\ CompleteTaskBegin(p, ActingUser(header, named),
                                       taskType, points, beginOk)
                  /\ caller' = [caller EXCEPT ![p] =
                                  ValidateToken(header).userID]

\* POST /users/referrer.
HandleAddReferrer(p) ==
    /\ pc[p] = "idle"
    /\ ncalls < MaxCalls
    /\ \E header \in AuthHeaders, named \in UserIDs, bodyOk \in BOOLEAN,
          referrer \in ReferrerInputs, beginOk \in BOOLEAN :
          LET a == Route("/users/referrer", header)
              r == IF a # Pass THEN a
                   ELSE AddReferrerRequest(header, named, bodyOk, referrer)
          IN IF r # Pass THEN Reject(p, "AddReferrer", header, r)
             ELSE /\ AddReferrerBegin(p, ActingUser(header, named), referrer,
                                      beginOk)
                  /\ caller' = [caller EXCEPT ![p] =
                                  ValidateToken(header).userID]

\* The status of the answer to a request: the one of the http.Error that
\* rejected it, else 500 when the service returned an error and 200 when it
\* did not.
ResponseStatus(r) ==
    IF "status" \in DOMAIN r THEN r.status
    ELSE IF r.err # NoErr THEN 500
    ELSE 200

\* The program with every CompleteTask and AddReferrer call made by its
\* handler.
HandlerNext ==
    \/ \E n \in Usernames : LoginUser(n)
    \/ \E p \in Procs : HandleCompleteTask(p)
    \/ \E p \in Procs : HandleAddReferrer(p)
    \/ \E p \in Procs : CompleteTaskCheckUser(p)
    \/ \E p \in Procs : CompleteTaskInsert(p)
    \/ \E p \in Procs : CompleteTaskUpdatePoints(p)
    \/ \E p \in Procs : CompleteTaskCommit(p)
    \/ \E p \in Procs : AddReferrerCheckReferrer(p)
    \/ \E p \in Procs : AddReferrerCheckUser(p)
    \/ \E p \in Procs : AddReferrerSetReferrer(p)
    \/ \E p \in Procs : AddReferrerBonus(p)
    \/ \E p \in Procs : AddReferrerReread(p)
    \/ \E p \in Procs : AddReferrerCommit(p)
    \/ \E p \in Procs : StoreFail(p)
    \/ \E p \in Procs : DeadlockAbort(p)

HandlerSpec == Init /\ [][HandlerNext]_vars

\* --------------------------------------------------------------- the API
\* The five routes of Router.Setup, every request counted; the answers of
\* the three routes that run no transaction are kept in got, with what the
\* Authorization header held.

\* auth as GetUserStatusResponse takes it.
AuthOf(header) ==
    IF ValidateToken(header).err # NoErr THEN 0 - 1
    ELSE ValidateToken(header).userID

\* POST /users/register.  Usernames are taken in order.
HandleLoginUser(header, username, hasPassword, insertOk, selectOk) ==
    /\ ncalls < MaxCalls
    /\ ncalls' = ncalls + 1
    /\ username <= Cardinality(DOMAIN users) + 1
    /\ LET a == Route("/users/register", header)
           r == LoginUserResult(users, username, insertOk, selectOk)
       IN IF a # Pass
          THEN /\ got' = [op |-> "LoginUser", arg |-> username,
                          err |-> a.err, val |-> <<>>, status |-> a.status,
                          auth |-> header.kind]
               /\ UNCHANGED users
          ELSE IF username = 0 \/ ~hasPassword
          THEN /\ got' = [op |-> "LoginUser", arg |-> username,
                          err |-> "Username and password are required",
                          val |-> <<>>, status |-> 400, auth |-> header.kind]
               /\ UNCHANGED users
          ELSE /\ users' = r.rows
               /\ got' = [op |-> "LoginUser", arg |-> username,
                          err |-> r.err,
                          val |-> IF r.err = NoErr
                                  THEN <<[user |-> r.val[1],
                                          token |-> r.val[1].id]>>
                                  ELSE <<>>,
                          status |-> IF r.err = NoErr THEN 201 ELSE 500,
                          auth |-> header.kind]
    /\ UNCHANGED <<tasks, pc, req, txUsers, txTasks, user, ret, log, caller>>

\* GET /users/status.
HandleGetUserStatus(header, queryOk) ==
    /\ ncalls < MaxCalls
    /\ ncalls' = ncalls + 1
    /\ LET a == Route("/users/status", header)
           r == IF a # Pass THEN [status |-> a.status, err |-> a.err,
                                  val |-> <<>>]
                ELSE GetUserStatusResponse(users, AuthOf(header), queryOk)
       IN got' = [op |-> "GetUserStatus", arg |-> header.user, err |-> r.err,
                  val |-> r.val, status |-> r.status, auth |-> header.kind]
    /\ UNCHANGED <<users, tasks, pc, req, txUsers, txTasks, user, ret, log,
                   caller>>

\* limit := 10 unless the query string holds a number above 0.
DefaultLimit == 10

\* GET /users/leaderboard; limit <= 0 stands for a parameter that is absent,
\* no number or not positive.
HandleGetLeaderboard(header, limit, queryOk) ==
    /\ ncalls < MaxCalls
    /\ ncalls' = ncalls + 1
    /\ LET a == Route("/users/leaderboard", header)
       IN IF a # Pass
          THEN got' = [op |-> "GetLeaderboard", arg |-> limit, err |-> a.err,
                       val |-> <<>>, status |-> a.status,
                       auth |-> header.kind]
          ELSE \E o \in LeaderboardOrders(users) :
                  LET r == GetLeaderboardResult(
                               users, o,
                               IF limit > 0 THEN limit ELSE DefaultLimit,
                               queryOk)
                  IN got' = [op |-> "GetLeaderboard", arg |-> limit,
                             err |-> r.err, val |-> r.val,
                             status |-> IF r.err # NoErr THEN 500 ELSE 200,
                             auth |-> header.kind]
    /\ UNCHANGED <<users, tasks, pc, req, txUsers, txTasks, user, ret, log,
                   caller>>

ApiNext ==
    \/ \E h \in AuthHeaders, n \in RegisterNames, pw \in BOOLEAN,
          iok \in BOOLEAN, sok \in BOOLEAN : HandleLoginUser(h, n, pw, iok, sok)
    \/ \E h \in AuthHeaders, ok \in BOOLEAN : HandleGetUserStatus(h, ok)
    \/ \E h \in AuthHeaders, limit \in LimitInputs, ok \in BOOLEAN :
          HandleGetLeaderboard(h, limit, ok)
    \/ \E p \in Procs : HandleCompleteTask(p)
    \/ \E p \in Procs : HandleAddReferrer(p)
    \/ \E p \in Procs : CompleteTaskCheckUser(p)
    \/ \E p \in Procs : CompleteTaskInsert(p)
    \/ \E p \in Procs : CompleteTaskUpdatePoints(p)
    \/ \E p \in Procs : CompleteTaskCommit(p)
    \/ \E p \in Procs : AddReferrerCheckReferrer(p)
    \/ \E p \in Procs : AddReferrerCheckUser(p)
    \/ \E p \in Procs : AddReferrerSetReferrer(p)
    \/ \E p \in Procs : AddReferrerBonus(p)
    \/ \E p \in Procs : AddReferrerReread(p)
    \/ \E p \in Procs : AddReferrerCommit(p)
    \/ \E p \in Procs : StoreFail(p)
    \/ \E p \in Procs : DeadlockAbort(p)

ApiSpec == QueryInit /\ [][ApiNext]_vars

\* ==================================================================
\* Properties
\* ==================================================================

\* Sum of the points of a set of task rows.
RECURSIVE SumPoints(_)
SumPoints(S) ==
    IF S = {} THEN 0
    ELSE LET t == CHOOSE x \in S : TRUE IN t.points + SumPoints(S \ {t})

TasksOf(u) == {t \in tasks : t.user_id = u}

\* The committed calls of one operation, as positions of the log.
Committed(op) == {i \in DOMAIN log : log[i].op = op}

\* Number of committed AddReferrer calls that named r as the referrer.
BonusCredits(r) ==
    Cardinality({i \in Committed("AddReferrer") : log[i].referrerID = r})

\* p's call returns in this step.
Returns(p) == pc[p] # "idle" /\ pc'[p] = "idle"

\* p's call commits and returns success in this step.
Succeeds(p, op) == Returns(p) /\ req[p].op = op /\ ret'[p].err = NoErr

\* C1: CompleteTask is all-or-nothing.  In every committed state the Task
\* rows are exactly the rows of the CompleteTask calls that committed, and
\* every user's points are the awards of that user's Task rows (plus the
\* bonuses of committed AddReferrer calls): no Task without its award in
\* the balance, no award in the balance without its Task, whatever step a
\* call failed at.
CompleteTaskAllOrNothing ==
    /\ tasks = {NewTask(log[i]) : i \in Committed("CompleteTask")}
    /\ \A u \in DOMAIN users :
          users[u].points - BonusPoints * BonusCredits(u) = SumPoints(TasksOf(u))

\* A CompleteTask call failed at the balance update, after its insert, next
\* to one that committed.
CompleteTaskAllOrNothingWitness ==
    \E p, q \in Procs :
        /\ ret[p].err = "failed to update user points"
        /\ ret[q].op = "CompleteTask" /\ ret[q].err = NoErr
        /\ tasks # {}

\* C2: a successful CompleteTask(userID, taskType, points) raises the
\* user's points by exactly points, adds exactly one new Task row with that
\* user_id, task_type and points, and returns that row.
CompleteTaskEffect ==
    [][\A p \in Procs : Succeeds(p, "CompleteTask") =>
          /\ req[p].userID \in DOMAIN users
          /\ users'[req[p].userID].points
               = users[req[p].userID].points + req[p].points
          /\ \E t \in tasks' \ tasks :
                /\ tasks' = tasks \cup {t}
                /\ t.user_id = req[p].userID
                /\ t.task_type = req[p].taskType
                /\ t.points = req[p].points
                /\ ret'[p].val = <<t>>]_vars

\* A CompleteTask with a non-empty task type has succeeded for a user whose
\* balance was not 0 before it.
CompleteTaskEffectWitness ==
    \E p \in Procs :
        /\ ret[p].op = "CompleteTask" /\ ret[p].err = NoErr
        /\ ret[p].val[1].task_type = "quiz"
        /\ users[ret[p].val[1].user_id].points > ret[p].val[1].points

\* C3: once a user's committed referrer_id is non-null, no later step
\* changes it.
ReferrerNeverOverwritten ==
    [][\A u \in DOMAIN users :
          users[u].referrer_id # NULL
             => users'[u].referrer_id = users[u].referrer_id]_vars

\* The committed AddReferrer calls for user u, as positions of the log.
ReferrerCalls(u) == {i \in Committed("AddReferrer") : log[i].userID = u}

\* C4: when two AddReferrer calls for the same user naming different
\* referrers have both committed (both passed the no-referrer check and
\* returned success), the user's referrer_id is the one of the call that
\* committed last, and each of the two referrers holds its 10-point bonus.
ReferrerRaceLastWriterWins ==
    \A i, j \in Committed("AddReferrer") :
        (i < j /\ log[i].userID = log[j].userID
               /\ log[i].referrerID # log[j].referrerID
               /\ \A k \in ReferrerCalls(log[j].userID) : k <= j)
        => /\ users[log[j].userID].referrer_id = log[j].referrerID
           /\ \A r \in {log[i].referrerID, log[j].referrerID} :
                 /\ BonusCredits(r) >= 1
                 /\ users[r].points
                      = SumPoints(TasksOf(r)) + BonusPoints * BonusCredits(r)

\* Two AddReferrer calls for one user, naming two other users, have both
\* returned success; both referrers hold 10 points and the user's referrer
\* is the second one.
ReferrerRaceLastWriterWinsWitness ==
    /\ Len(log) = 2
    /\ log[1].op = "AddReferrer" /\ log[2].op = "AddReferrer"
    /\ log[1].userID = log[2].userID
    /\ Cardinality({log[1].userID, log[1].referrerID, log[2].referrerID}) = 3
    /\ \A p \in Procs : ret[p].op = "AddReferrer" /\ ret[p].err = NoErr
    /\ users[log[1].referrerID].points = BonusPoints
    /\ users[log[2].referrerID].points = BonusPoints
    /\ users[log[2].userID].referrer_id = log[2].referrerID

\* Number of users whose referrer_id is r.
Referred(r) == Cardinality({v \in DOMAIN users : users[v].referrer_id = r})

\* C5: ledger conservation.  Every user's points are the sum of the points
\* of the user's Task rows plus 10 for every user whose referrer_id is that
\* user.
LedgerConservation ==
    \A u \in DOMAIN users :
        users[u].points = SumPoints(TasksOf(u)) + BonusPoints * Referred(u)

\* C6: a successful AddReferrer(userID, referrerID) for two distinct users
\* leaves userID's referrer_id equal to referrerID and referrerID's points
\* raised by exactly 10.
AddReferrerEffect ==
    [][\A p \in Procs :
          (Succeeds(p, "AddReferrer") /\ req[p].userID # req[p].referrerID) =>
             /\ {req[p].userID, req[p].referrerID} \subseteq DOMAIN users
             /\ users'[req[p].userID].referrer_id = req[p].referrerID
             /\ users'[req[p].referrerID].points
                  = users[req[p].referrerID].points + BonusPoints]_vars

\* An AddReferrer for two distinct users has succeeded, for a referrer whose
\* balance was not 0 before it.
AddReferrerEffectWitness ==
    \E p \in Procs, u, r \in DOMAIN users :
        /\ ret[p].op = "AddReferrer" /\ ret[p].err = NoErr
        /\ ret[p].val[1].id = u /\ u # r
        /\ users[u].referrer_id = r
        /\ users[r].points > BonusPoints

\* C7: AddReferrer is all-or-nothing.  In every committed state, for every
\* AddReferrer(userID, referrerID) call, the link userID -> referrerID is
\* present exactly when the call's bonus has been credited (the call is
\* committed); a user has no link that no committed call wrote.
AddReferrerAllOrNothing ==
    /\ \A i \in Committed("AddReferrer") :
          users[log[i].userID].referrer_id = log[i].referrerID
    /\ \A u \in DOMAIN users :
          users[u].referrer_id # NULL
             => \E i \in ReferrerCalls(u) :
                   log[i].referrerID = users[u].referrer_id
    /\ \A u \in DOMAIN users :
          users[u].points
             = SumPoints(TasksOf(u)) + BonusPoints * BonusCredits(u)

\* The part of C7 that does not depend on the no-referrer check: every step
\* writes a link to r exactly as often as it credits r's bonus.
AddReferrerStepAtomic ==
    [][\A r \in DOMAIN users :
          users'[r].points - users[r].points
             - (SumPoints({t \in tasks' : t.user_id = r}) - SumPoints(TasksOf(r)))
          = BonusPoints * Cardinality({u \in DOMAIN users :
                users'[u].referrer_id = r
                /\ (users[u].referrer_id # r
                    \/ \E p \in Procs : Succeeds(p, "AddReferrer")
                                          /\ req[p].userID = u)})]_vars

\* C8: an AddReferrer call that reaches the no-referrer check when the
\* user's committed referrer_id is set (the earlier call has committed)
\* returns there: with the Conflict error unless the statement itself
\* fails, and with the store as it was, so no referrer_id changes and no
\* bonus is credited.
SecondAddReferrerConflicts ==
    [][\A p \in Procs :
          (/\ pc[p] = "ar_has_referrer"
           /\ pc'[p] # pc[p]
           /\ req[p].userID \in DOMAIN users
           /\ users[req[p].userID].referrer_id # NULL)
          => /\ pc'[p] = "idle"
             /\ ret'[p].err \in {ErrAlreadyHasReferrer, FailMsg("ar_has_referrer")}
             /\ ret'[p].val = <<>>
             /\ users' = users /\ tasks' = tasks]_vars

\* After one AddReferrer call for a user committed, a second one for that
\* user has returned the Conflict error; the link is the first call's and
\* one bonus has been paid.
SecondAddReferrerConflictsWitness ==
    \E p \in Procs :
        /\ ret[p].op = "AddReferrer" /\ ret[p].err = ErrAlreadyHasReferrer
        /\ Len(log) = 1 /\ log[1].op = "AddReferrer"
        /\ users[log[1].userID].referrer_id = log[1].referrerID
        /\ \A v \in DOMAIN users :
              users[v].points = BonusPoints * BonusCredits(v)

\* C9: no user's referrer_id is the user's own id.
NoSelfReferral ==
    \A u \in DOMAIN users : users[u].referrer_id # u

\* The errors of the NotFound kind and the errors a failing store statement
\* is wrapped into.
NotFoundErrors == {ErrUserNotFound, ErrReferrerNotFound}
StoreErrors ==
    {ErrBegin} \cup
    {FailMsg(at) : at \in {"ct_exists", "ct_insert", "ct_update", "ct_commit",
                           "ar_ref_exists", "ar_has_referrer",
                           "ar_set_referrer", "ar_bonus", "ar_reread",
                           "ar_commit"}}

\* C10: a CompleteTask call with points <= 0 for an existing user returns an
\* error that is neither of the NotFound kind nor a store failure, and
\* leaves the store unchanged.
NonPositivePointsInvalidInput ==
    [][\A p \in Procs :
          (/\ Returns(p)
           /\ req[p].op = "CompleteTask"
           /\ req[p].points <= 0
           /\ pc[p] = "ct_insert")
          => /\ ret'[p].err \notin {NoErr} \cup NotFoundErrors \cup StoreErrors
             /\ users' = users /\ tasks' = tasks]_vars

\* The parts of C10 the schema enforces: no Task row has points <= 0, and a
\* call with points <= 0 never changes the store.
NoNonPositiveTask ==
    \A t \in tasks : t.points > 0

NonPositivePointsStoreUnchanged ==
    [][\A p \in Procs :
          (req[p].op = "CompleteTask" /\ req[p].points <= 0 /\ Returns(p))
          => ret'[p].err # NoErr /\ users' = users /\ tasks' = tasks]_vars

\* C11: a CompleteTask call that reaches the existence check when no row of
\* its userID is committed returns there: with the NotFound error unless the
\* statement itself fails, without a Task row, and with every user's points
\* as they were.
CompleteTaskUnknownUser ==
    [][\A p \in Procs :
          (/\ pc[p] = "ct_exists"
           /\ pc'[p] # pc[p]
           /\ req[p].userID \notin DOMAIN users)
          => /\ pc'[p] = "idle"
             /\ ret'[p].err \in {ErrUserNotFound, FailMsg("ct_exists")}
             /\ ret'[p].val = <<>>
             /\ tasks' = tasks
             /\ \A u \in DOMAIN users : users'[u].points = users[u].points]_vars

\* A CompleteTask call has returned "user not found"
\* while other users exist; there is no Task row and no balance moved.
CompleteTaskUnknownUserWitness ==
    \E p \in Procs :
        /\ ret[p].op = "CompleteTask" /\ ret[p].err = ErrUserNotFound
        /\ DOMAIN users # {} /\ DOMAIN users # UserIDs
        /\ tasks = {}
        /\ \A u \in DOMAIN users : users[u].points = 0

\* C12: an AddReferrer call whose referrerID has no committed row when the
\* call makes its first check returns there with "referrer not found"
\* (unless the statement itself fails), whatever the state of userID, and
\* the store is unchanged.
AddReferrerUnknownReferrer ==
    [][\A p \in Procs :
          (/\ pc[p] = "ar_ref_exists"
           /\ pc'[p] # pc[p]
           /\ req[p].referrerID \notin DOMAIN users)
          => /\ pc'[p] = "idle"
             /\ ret'[p].err \in {ErrReferrerNotFound, FailMsg("ar_ref_exists")}
             /\ ret'[p].val = <<>>
             /\ users' = users /\ tasks' = tasks /\ log' = log]_vars

\* An AddReferrer call has returned "referrer not found" on a store without
\* any user: both of its ids were missing, the referrer one is reported.
AddReferrerUnknownReferrerWitness ==
    \E p \in Procs :
        /\ ret[p].op = "AddReferrer" /\ ret[p].err = ErrReferrerNotFound
        /\ users = EmptyRows

\* C13: an AddReferrer call past the referrer check that reads the userID
\* row returns there when the row is missing, with "user not found", and
\* when the row has a referrer, with "user already has a referrer" (unless
\* the statement itself fails); the store is unchanged, the named referrer
\* keeps its points.
AddReferrerUserRejected ==
    [][\A p \in Procs :
          (/\ pc[p] = "ar_has_referrer"
           /\ pc'[p] # pc[p]
           /\ (req[p].userID \in DOMAIN users
                  => users[req[p].userID].referrer_id # NULL))
          => /\ pc'[p] = "idle"
             /\ ret'[p].err \in
                   {IF req[p].userID \in DOMAIN users
                    THEN ErrAlreadyHasReferrer ELSE ErrUserNotFound,
                    FailMsg("ar_has_referrer")}
             /\ ret'[p].val = <<>>
             /\ users' = users /\ tasks' = tasks /\ log' = log
             /\ req[p].referrerID \in DOMAIN users
                   => users'[req[p].referrerID].points
                         = users[req[p].referrerID].points]_vars

\* An AddReferrer call naming an existing referrer has returned "user not
\* found"; nobody holds a bonus.
AddReferrerUserRejectedWitness ==
    \E p \in Procs :
        /\ ret[p].op = "AddReferrer" /\ ret[p].err = ErrUserNotFound
        /\ DOMAIN users # {}
        /\ \A u \in DOMAIN users :
              users[u].points = 0 /\ users[u].referrer_id = NULL

\* C14: every non-null referrer_id of a committed row is the id of a
\* committed row.
ReferrerExists ==
    \A u \in DOMAIN users :
        users[u].referrer_id # NULL => users[u].referrer_id \in DOMAIN users

\* A user holds a referrer that is another user, created after it.
ReferrerExistsWitness ==
    \E u \in DOMAIN users :
        /\ users[u].referrer_id # NULL
        /\ users[u].referrer_id > u
        /\ users[u].referrer_id \in DOMAIN users

\* Sum of the awards of the logged calls at the positions I.
RECURSIVE SumAwards(_)
SumAwards(I) ==
    IF I = {} THEN 0
    ELSE LET i == CHOOSE x \in I : TRUE IN log[i].points + SumAwards(I \ {i})

\* The user a committed call credits.
Credited(call) ==
    IF call.op = "CompleteTask" THEN call.userID ELSE call.referrerID

\* C15: no credit is lost.  Whatever the interleaving of the calls, every
\* user's committed points are the 0 the row was created with plus the
\* awards of the committed CompleteTask calls for the user plus 10 for each
\* committed AddReferrer call that named the user as referrer.
NoLostCredit ==
    \A u \in DOMAIN users :
        users[u].points
          = SumAwards({i \in Committed("CompleteTask") : log[i].userID = u})
            + BonusPoints * BonusCredits(u)

\* A CompleteTask and an AddReferrer crediting the same user have both
\* committed, the one that started first committing last (so the other ran
\* while it was open); the user holds both credits.
NoLostCreditWitness ==
    /\ Len(log) = 2
    /\ log[1].callID > log[2].callID
    /\ log[1].op # log[2].op
    /\ Credited(log[1]) = Credited(log[2])
    /\ users[Credited(log[1])].points = BonusPoints + MaxPoints

\* C16: every CompleteTask or AddReferrer call that has started returns,
\* under any interleaving and without relying on a failure of the store; in
\* particular two AddReferrer calls that lock the same two rows in opposite
\* order do not wait for each other forever.
EveryCallReturns ==
    \A p \in Procs : (pc[p] # "idle") ~> (pc[p] = "idle")

\* AddReferrer(A, B) and AddReferrer(B, A) each hold the row the other's
\* bonus UPDATE waits for.
EveryCallReturnsWitness ==
    \E p, q \in Procs :
        /\ p # q
        /\ pc[p] = "ar_bonus" /\ pc[q] = "ar_bonus"
        /\ req[p].userID = req[q].referrerID
        /\ req[p].referrerID = req[q].userID
        /\ req[p].userID # req[p].referrerID
        /\ Deadlocked(p) /\ Deadlocked(q)

\* C17: a call whose context is cancelled (or whose statement fails
\* otherwise) between BeginTx and the end of Commit returns an error and
\* leaves nothing behind: the step that returns the error changes no
\* committed row, and no earlier step of the call did, since committed rows
\* of existing users and Task rows only change in a step in which a call
\* returns success.
CancelLeavesNoTrace ==
    [][/\ \A p \in Procs :
             (Returns(p) /\ ret'[p].err # NoErr)
             => users' = users /\ tasks' = tasks /\ log' = log
       /\ (tasks' # tasks \/ \E u \in DOMAIN users : users'[u] # users[u])
             => \E p \in Procs : Returns(p) /\ ret'[p].err = NoErr]_vars

\* An AddReferrer call failed at its Commit, after both UPDATEs; nothing
\* is committed, no user has a referrer or points.
CancelLeavesNoTraceWitness ==
    \E p \in Procs :
        /\ ret[p].op = "AddReferrer"
        /\ ret[p].err = FailMsg("ar_commit")
        /\ log = <<>> /\ tasks = {}
        /\ Cardinality(DOMAIN users) >= 2
        /\ \A u \in DOMAIN users :
              users[u].points = 0 /\ users[u].referrer_id = NULL

\* The errors a query returns when the store or the driver fails.
QueryStoreErrors ==
    {Wrap("failed to get user", ErrQuery),
     Wrap("failed to query leaderboard", ErrQuery)}

\* C18: GetUserByID with the id of a stored user returns, unless the store
\* fails, no error and that user: its id, username, current points and
\* optional referrer_id.
GetUserByIDReturnsUser ==
    (/\ got.op = "GetUserByID"
     /\ got.arg \in DOMAIN users
     /\ got.err \notin QueryStoreErrors)
    => /\ got.err = NoErr
       /\ got.val = <<[id |-> got.arg,
                       username |-> users[got.arg].username,
                       points |-> users[got.arg].points,
                       referrer_id |->
                          IF users[got.arg].referrer_id = NULL THEN <<>>
                          ELSE <<users[got.arg].referrer_id>>]>>

\* C19: GetUserByID with an id that has no stored row returns, unless the
\* store fails, a nil user and a nil error, and GetUserStatus for such an
\* id answers 404, not 500.
GetUserByIDAbsent ==
    /\ (got.op = "GetUserByID" /\ got.arg \notin DOMAIN users)
          => /\ got.val = <<>>
             /\ got.err \in {NoErr, Wrap("failed to get user", ErrQuery)}
    /\ (got.op = "GetUserStatus" /\ got.arg > 0 /\ got.arg \notin DOMAIN users)
          => \/ got.status = 404
             \/ got.status = 500 /\ got.err = Wrap("failed to get user", ErrQuery)

\* GetUserStatus answered 404 for a token naming a user that is not stored,
\* on a store that holds other users.
GetUserByIDAbsentWitness ==
    /\ got.op = "GetUserStatus"
    /\ got.arg > 0 /\ got.arg \notin DOMAIN users
    /\ DOMAIN users # {}
    /\ got.status = 404

\* C20: GetLeaderboard(limit) with limit > 0 returns, unless the store
\* fails, min(limit, number of users) different stored users with their
\* current points, in non-increasing order of points, and no user left out
\* has more points than a returned one.
LeaderboardTopSorted ==
    (got.op = "GetLeaderboard" /\ got.arg > 0 /\ got.err \notin QueryStoreErrors)
    => /\ got.err = NoErr
       /\ Len(got.val) = Min(got.arg, Cardinality(DOMAIN users))
       /\ \A i \in DOMAIN got.val :
             /\ got.val[i].id \in DOMAIN users
             /\ got.val[i].points = users[got.val[i].id].points
       /\ \A i, j \in DOMAIN got.val :
             i < j => /\ got.val[i].id # got.val[j].id
                      /\ got.val[i].points >= got.val[j].points
       /\ \A u \in DOMAIN users, i \in DOMAIN got.val :
             (\A j \in DOMAIN got.val : got.val[j].id # u)
                => users[u].points <= got.val[i].points

\* GetLeaderboard(2) on three users of three different balances, the one
\* registered first having the smallest, returned the other two, the larger
\* first.
LeaderboardTopSortedWitness ==
    /\ got.op = "GetLeaderboard" /\ got.arg = 2 /\ got.err = NoErr
    /\ Cardinality(DOMAIN users) = 3
    /\ Cardinality({users[u].points : u \in DOMAIN users}) = 3
    /\ Len(got.val) = 2
    /\ got.val[1].id = 3 /\ got.val[2].id = 2
    /\ got.val[1].points > got.val[2].points
    /\ got.val[2].points > users[1].points

\* C21: a successful AddReferrer(userID, referrerID) returns the userID row
\* as the transaction left it: id userID, referrer_id present and equal to
\* referrerID, and the points the user has once the call is committed.
AddReferrerReturnsUpdatedUser ==
    [][\A p \in Procs : Succeeds(p, "AddReferrer") =>
          /\ Len(ret'[p].val) = 1
          /\ ret'[p].val[1].id = req[p].userID
          /\ ret'[p].val[1].referrer_id = <<req[p].referrerID>>
          /\ ret'[p].val[1].points = users'[req[p].userID].points
          /\ ret'[p].val[1].username = users'[req[p].userID].username]_vars

\* An AddReferrer for a user that already held task points has succeeded and
\* returned the user with those points and with another user as referrer.
AddReferrerReturnsUpdatedUserWitness ==
    \E p \in Procs :
        /\ ret[p].op = "AddReferrer" /\ ret[p].err = NoErr
        /\ ret[p].val[1].points = MaxPoints
        /\ ret[p].val[1].referrer_id # <<>>
        /\ ret[p].val[1].referrer_id # <<ret[p].val[1].id>>
        /\ users[ret[p].val[1].id].points = MaxPoints

\* C23: a user row is created with 0 points, no user's points are ever
\* negative, and no step lowers a user's points or removes a user.
PointsNeverDecrease ==
    [][/\ \A u \in DOMAIN users :
             u \in DOMAIN users' /\ users'[u].points >= users[u].points
       /\ \A u \in DOMAIN users' \ DOMAIN users : users'[u].points = 0
       /\ \A u \in DOMAIN users' : users'[u].points >= 0]_vars

\* One user still holds the 0 points of its creation, another one has been
\* credited a bonus and a task award.
PointsNeverDecreaseWitness ==
    \E u, v \in DOMAIN users :
        /\ users[u].points = 0
        /\ users[v].points = BonusPoints + MaxPoints
        /\ \E t \in tasks : t.user_id = v

\* C24: the Task rows are append-only.  No step removes a committed Task row
\* or changes one of its fields (a row id never stands for two rows), and
\* the only step that adds a row is the commit of a CompleteTask call, which
\* adds that call's one row.
TasksAppendOnly ==
    [][/\ tasks \subseteq tasks'
       /\ \A t1, t2 \in tasks' : t1.id = t2.id => t1 = t2
       /\ tasks' # tasks
             => \E p \in Procs :
                   /\ Succeeds(p, "CompleteTask")
                   /\ NewTask(req[p]) \notin tasks
                   /\ tasks' = tasks \cup {NewTask(req[p])}]_vars

\* Two CompleteTask calls for one user have committed; both rows are there.
TasksAppendOnlyWitness ==
    /\ Len(log) = 2
    /\ log[1].op = "CompleteTask" /\ log[2].op = "CompleteTask"
    /\ log[1].userID = log[2].userID
    /\ tasks = {NewTask(log[1]), NewTask(log[2])}
    /\ Cardinality(tasks) = 2

\* C28: each operation changes only the rows it names.  The commit of
\* CompleteTask(u, ...) changes nothing of the users table but u's points;
\* the commit of AddReferrer(u, r) changes nothing but u's referrer_id and
\* r's points: every other user, r's own referrer among them, keeps its
\* row, u keeps its points when u # r, and r keeps its referrer_id.
OperationsChangeOnlyNamedRows ==
    [][\A p \in Procs :
          /\ Succeeds(p, "CompleteTask") =>
                /\ DOMAIN users' = DOMAIN users
                /\ \A v \in DOMAIN users :
                      /\ v # req[p].userID => users'[v] = users[v]
                      /\ users'[v].referrer_id = users[v].referrer_id
                      /\ users'[v].username = users[v].username
          /\ Succeeds(p, "AddReferrer") =>
                /\ DOMAIN users' = DOMAIN users
                /\ tasks' = tasks
                /\ \A v \in DOMAIN users :
                      /\ v \notin {req[p].userID, req[p].referrerID}
                            => users'[v] = users[v]
                      /\ v # req[p].referrerID
                            => users'[v].points = users[v].points
                      /\ v # req[p].userID
                            => users'[v].referrer_id = users[v].referrer_id
                      /\ users'[v].username = users[v].username]_vars

\* AddReferrer(u, r) has committed for a referrer r that itself has a
\* referrer x: r holds one bonus, and x holds only the one it got for r.
OperationsChangeOnlyNamedRowsWitness ==
    /\ Len(log) = 2
    /\ log[1].op = "AddReferrer" /\ log[2].op = "AddReferrer"
    /\ log[2].referrerID = log[1].userID
    /\ Cardinality({log[2].userID, log[1].userID, log[1].referrerID}) = 3
    /\ users[log[1].userID].points = BonusPoints
    /\ users[log[1].referrerID].points = BonusPoints
    /\ users[log[2].userID].points = 0

\* The part of C23 and C24 about the queries: GetUserByID, GetUserStatus and
\* GetLeaderboard change no user row and no Task row.
QueriesChangeNothing ==
    [][got' # got => users' = users /\ tasks' = tasks]_vars

\* The statement after the one at pc at in AddReferrer.
AddReferrerNextPc(at) ==
    CASE at = "ar_ref_exists" -> "ar_has_referrer"
      [] at = "ar_has_referrer" -> "ar_set_referrer"
      [] at = "ar_set_referrer" -> "ar_bonus"
      [] at = "ar_bonus" -> "ar_reread"
      [] at = "ar_reread" -> "ar_commit"
      [] at = "ar_commit" -> "idle"

\* C29: AddReferrer(userID, referrerID) places three conditions on the pair
\* and no other.  Unless the statement itself fails, the first check lets
\* the call on exactly when the referrerID row exists, and the second
\* exactly when the userID row exists and has no referrer; past the two
\* checks the rows the later statements need are there, and every step goes
\* on to the next statement, up to the successful return, unless it returns
\* that statement's failure.
AddReferrerOnlyThreeConditions ==
    [][\A p \in Procs :
          /\ pc'[p] \in {"ar_set_referrer", "ar_bonus", "ar_reread"}
                => (/\ UserExists(p, req[p].referrerID)
                    /\ UserExists(p, req[p].userID))'
          /\ (/\ req[p].op = "AddReferrer"
              /\ pc'[p] # pc[p]
              /\ ~(pc'[p] = "idle" /\ ret'[p].err = FailMsg(pc[p])))
             => /\ pc[p] = "ar_ref_exists" =>
                      IF req[p].referrerID \in DOMAIN users
                      THEN pc'[p] = "ar_has_referrer"
                      ELSE pc'[p] = "idle" /\ ret'[p].err = ErrReferrerNotFound
                /\ pc[p] = "ar_has_referrer" =>
                      IF /\ req[p].userID \in DOMAIN users
                         /\ users[req[p].userID].referrer_id = NULL
                      THEN pc'[p] = "ar_set_referrer"
                      ELSE /\ pc'[p] = "idle"
                           /\ ret'[p].err \in {ErrUserNotFound,
                                               ErrAlreadyHasReferrer}
                /\ pc[p] \notin {"ar_ref_exists", "ar_has_referrer"} =>
                      /\ pc'[p] = AddReferrerNextPc(pc[p])
                      /\ pc'[p] = "idle" => ret'[p].err = NoErr]_vars

\* Two users are each other's referrer and each holds one bonus, after two
\* AddReferrer calls served one after the other by the same request slot.
AddReferrerOnlyThreeConditionsWitness ==
    \E a, b \in DOMAIN users, p \in Procs :
        /\ a # b
        /\ users[a].referrer_id = b /\ users[b].referrer_id = a
        /\ users[a].points = BonusPoints /\ users[b].points = BonusPoints
        /\ ret[p].op = "AddReferrer" /\ ret[p].err = NoErr
        /\ \A q \in Procs \ {p} : ret[q] = NoRet

\* C26: no two user rows share a username, and a registration for a
\* username in use fails, adds no row and leaves every row as it was.
\* Registrations are single INSERTs, which the store serialises on the
\* unique index, so two of them for one name are one after the other.
UsernamesUnique ==
    [][/\ \A u, v \in DOMAIN users' :
             users'[u].username = users'[v].username => u = v
       /\ (/\ got'.op = "RegisterUser"
           /\ got'.status # 400
           /\ \E u \in DOMAIN users : users[u].username = got'.arg)
          => /\ got'.status = 500
             /\ got'.err # NoErr
             /\ users' = users]_vars

\* A registration for a name in use has been answered 500 on a store where
\* a user holds points and a referrer.
UsernamesUniqueWitness ==
    /\ got.op = "RegisterUser" /\ got.status = 500
    /\ \E u \in DOMAIN users :
          /\ users[u].username = got.arg
          /\ users[u].points > 0 /\ users[u].referrer_id # NULL

\* The kind of the error a CompleteTask or AddReferrer request ended with,
\* "none" for a success or an answer of another sort (token, body).
ErrorKind(r) ==
    IF r.err \in NotFoundErrors THEN "NotFound"
    ELSE IF r.err = ErrAlreadyHasReferrer THEN "Conflict"
    ELSE IF r.err \in {"Task type is required", "Points must be positive"}
    THEN "InvalidInput"
    ELSE IF r.err \in StoreErrors THEN "StoreUnavailable"
    ELSE "none"

\* C22: at the boundary each error kind of CompleteTask and AddReferrer
\* (NotFound, Conflict, InvalidInput, StoreUnavailable) has its own response
\* status: two requests that ended with errors of different kinds were
\* answered with different statuses.
ErrorKindsHaveOwnStatus ==
    \A p, q \in Procs :
        /\ ErrorKind(ret[p]) # "none"
        /\ ErrorKind(ret[q]) # "none"
        /\ ErrorKind(ret[p]) # ErrorKind(ret[q])
        => ResponseStatus(ret[p]) # ResponseStatus(ret[q])

\* C27: the AddReferrer handler answers 400 to a request whose referrer_id
\* is the id of the token's user and does not call the service: with every
\* call made by the handler, no AddReferrer call is in progress or committed
\* with userID = referrerID, and no users row, committed or written in an
\* open transaction, names itself as referrer (so nobody was credited the
\* bonus of referring themselves).
HandlerRejectsSelfReferral ==
    /\ \A p \in Procs :
          /\ ret[p].err = ErrSelfReferrer
             => ResponseStatus(ret[p]) = 400 /\ ret[p].auth = "valid"
          /\ req[p].op = "AddReferrer" => req[p].userID # req[p].referrerID
          /\ \A id \in DOMAIN txUsers[p] : txUsers[p][id].referrer_id # id
    /\ \A i \in Committed("AddReferrer") : log[i].userID # log[i].referrerID
    /\ \A id \in DOMAIN users : users[id].referrer_id # id

\* C27 witness: a request of a stored user naming themselves was answered
\* 400 by the handler, and the store holds no referral.
HandlerRejectsSelfReferralWitness ==
    \E p \in Procs :
        /\ ret[p].op = "AddReferrer"
        /\ ret[p].err = ErrSelfReferrer
        /\ ResponseStatus(ret[p]) = 400
        /\ DOMAIN users # {}
        /\ \A id \in DOMAIN users : users[id].referrer_id = NULL

\* C30: the task-complete and referrer handlers act for the user of the
\* token's user_id claim only.  With every call made by a handler, a call
\* in progress carries a token subject, every Task row that becomes
\* committed belongs to the subject of the token of the request that
\* committed it, and every users row that changes is either that subject's
\* or, for a referrer request, the named referrer's, whose referrer_id
\* stays as it was.
ActsOnlyForTokenSubject ==
    [][/\ \A p \in Procs : pc'[p] # "idle" => caller'[p] \in UserIDs
       /\ \A t \in tasks' \ tasks :
             \E p \in Procs : Returns(p) /\ t.user_id = caller[p]
       /\ \A id \in DOMAIN users :
             users'[id] # users[id]
             => \E p \in Procs :
                   /\ Returns(p)
                   /\ \/ id = caller[p]
                      \/ /\ req[p].op = "AddReferrer"
                         /\ id = req[p].referrerID
                         /\ users'[id].referrer_id = users[id].referrer_id]_vars

\* C30 witness: of three stored users, one had a Task credited by a request
\* with their token and another set their referrer with theirs; the third,
\* who sent nothing, is as registered apart from the bonus if named.
ActsOnlyForTokenSubjectWitness ==
    \E p, q \in Procs :
        /\ Cardinality(DOMAIN users) = MaxUsers
        /\ ret[p].op = "CompleteTask" /\ ret[p].err = NoErr
        /\ ret[q].op = "AddReferrer" /\ ret[q].err = NoErr
        /\ caller[p] # caller[q]
        /\ \E t \in tasks : t.user_id = caller[p]
        /\ users[caller[q]].referrer_id \notin {NULL, caller[p], caller[q]}
        /\ \A id \in DOMAIN users \ {caller[q]} : users[id].referrer_id = NULL
        /\ \A t \in tasks : t.user_id = caller[p]

\* The store and the calls in progress.
storeVars == <<users, tasks, pc, req, txUsers, txTasks, user, log>>

\* C25: a request to /users/status, /users/leaderboard,
\* /users/task/complete or /users/referrer whose Authorization header is
\* absent or holds an invalid or expired token is answered 401 with nothing
\* of the store in the answer, and leaves the store and the calls in
\* progress as they were; a call of the service is entered with a token
\* subject only; /users/register is never answered 401, whatever the header.
UnauthenticatedRequestsRejected ==
    [][/\ got' # got /\ got'.op # "LoginUser" /\ got'.auth # "valid"
          => /\ got'.status = 401
             /\ got'.val = <<>>
             /\ UNCHANGED storeVars
       /\ got' # got /\ got'.op = "LoginUser" => got'.status # 401
       /\ \A p \in Procs :
             /\ ret'[p] # ret[p] /\ "auth" \in DOMAIN ret'[p]
                /\ ret'[p].auth # "valid"
                => ret'[p].status = 401 /\ UNCHANGED storeVars
             /\ pc[p] = "idle" /\ pc'[p] # "idle"
                => caller'[p] \in UserIDs]_vars

\* C25 witness: on a store with users, a leaderboard request without
\* Authorization header and a referrer request with an expired token were
\* both answered 401.
UnauthenticatedRequestsRejectedWitness ==
    \E p \in Procs :
        /\ DOMAIN users # {}
        /\ got.op = "GetLeaderboard" /\ got.auth = "none"
        /\ got.status = 401
        /\ ret[p].op = "AddReferrer" /\ ret[p].err = "Token expired"
        /\ ResponseStatus(ret[p]) = 401

====
